---- MODULE Spec2Model ----
(***************************************************************************)
(* Model of the recurring-analysis job coordinator (the Lambda `handler`   *)
(* of the Bluesky sentiment analyzer) and of the stores it reads and       *)
(* writes: the Queries table, the Data table, the counter, the subtopic    *)
(* registry, the EventBridge schedule and the SNS topic.                   *)
(* One invocation is in flight at a time; `pc` is its position.            *)
(* Spec reads the Data table whole and up to date; StaleSpec lets the      *)
(* run-count scan miss stored records; ResumeSpec starts from the stores   *)
(* a first interval leaves. UnitSpec, CounterSpec and PureSpec apply       *)
(* single functions of the handler to inputs of their own. DeployedSpec    *)
(* runs the handler next to the compiled blueskyLambda.js.                 *)
(***************************************************************************)
EXTENDS Integers, Sequences, FiniteSets, TLC

\* ---------------------------------------------------------------- bounds
MaxIntervals == 2
MaxInvocations == 2
MaxPosts == 2
MaxCallers == 2
MaxDeleteCalls == 2
MaxPoints == 2
MaxPhrases == 5
MaxDeliveries == 3

\* ------------------------------------------------------ program constants
SUBTOPIC_COUNT == 3
MinPhraseLength == 2
QueryId == 1
DATA_COUNTER_NAME == "DataCounter"
MainTopicName == <<"T", "o", "p">>
OwnerEmail == "owner@example.org"
NoMainTopic == <<>>
MAX_SUBTOPIC_LENGTH == 255
MAX_COMPREHEND_BYTES == 4990

\* --------------------------------------------------------------- strings
\* A string is a sequence of one-character strings.
LowerChar(c) ==
  CASE c = "T" -> "t"
    [] c = "C" -> "c"
    [] c = "D" -> "d"
    [] OTHER -> c

ToLowerCase(s) == [i \in DOMAIN s |-> LowerChar(s[i])]

RECURSIVE TrimStart(_)
TrimStart(s) ==
  IF s # <<>> /\ Head(s) = " " THEN TrimStart(Tail(s)) ELSE s

RECURSIVE TrimEnd(_)
TrimEnd(s) ==
  IF s # <<>> /\ s[Len(s)] = " " THEN TrimEnd(SubSeq(s, 1, Len(s) - 1)) ELSE s

Trim(s) == TrimEnd(TrimStart(s))

\* Array.prototype.slice(0, n)
Slice(s, n) == SubSeq(s, 1, IF Len(s) < n THEN Len(s) ELSE n)

Range(s) == {s[i] : i \in DOMAIN s}

\* ------------------------------------------------------------------ UTF-8
\* A text in UTF-8 is `ascii` one-byte code points followed by the bytes
\* `tail`. A byte of the tail is written as the width (1..4) of the code point
\* it starts, or 0 when it is a continuation byte.
Utf8Text(ascii, tail) == [ascii |-> ascii, tail |-> tail]

EncodePoint(w) == <<w>> \o [i \in 1..(w - 1) |-> 0]

\* Buffer.from(string, 'utf8') on the code points of the tail
RECURSIVE Utf8Encode(_)
Utf8Encode(points) ==
  IF points = <<>> THEN <<>> ELSE EncodePoint(Head(points)) \o Utf8Encode(Tail(points))

\* Buffer.byteLength(text, 'utf8')
ByteLength(text) == text.ascii + Len(text.tail)

\* buffer.slice(0, n)
BufferSlice(text, n) ==
  IF text.ascii >= n
    THEN Utf8Text(n, <<>>)
    ELSE Utf8Text(text.ascii, Slice(text.tail, n - text.ascii))

\* continuation bytes that follow the first byte, at most want of them
RECURSIVE Continuations(_, _)
Continuations(bytes, want) ==
  IF want = 0 \/ bytes = <<>> \/ Head(bytes) # 0
    THEN 0
    ELSE 1 + Continuations(Tail(bytes), want - 1)

\* U+FFFD, three bytes in UTF-8
ReplacementCharacter == 3

\* buffer.toString('utf8'): the code points of the bytes, an ill-formed or
\* incomplete sequence decoded as one U+FFFD
RECURSIVE Utf8Decode(_)
Utf8Decode(bytes) ==
  IF bytes = <<>> THEN <<>>
  ELSE LET w == Head(bytes)
           have == Continuations(Tail(bytes), w - 1)
       IN IF w = 0
            THEN <<ReplacementCharacter>> \o Utf8Decode(Tail(bytes))
            ELSE IF have = w - 1
              THEN <<w>> \o Utf8Decode(SubSeq(bytes, w + 1, Len(bytes)))
              ELSE <<ReplacementCharacter>> \o
                   Utf8Decode(SubSeq(bytes, have + 2, Len(bytes)))

\* every code point of the bytes is complete
RECURSIVE WellFormed(_)
WellFormed(bytes) ==
  IF bytes = <<>> THEN TRUE
  ELSE LET w == Head(bytes)
       IN /\ w # 0
          /\ Len(bytes) >= w
          /\ \A i \in 2..w : bytes[i] = 0
          /\ WellFormed(SubSeq(bytes, w + 1, Len(bytes)))

\* the text handed to DetectSentiment and DetectKeyPhrases, as the SDK
\* serializes it: the string decoded from the first MAX_COMPREHEND_BYTES bytes
TextToAnalyze(text) ==
  IF ByteLength(text) > MAX_COMPREHEND_BYTES
    THEN LET buffer == BufferSlice(text, MAX_COMPREHEND_BYTES)
         IN Utf8Text(buffer.ascii, Utf8Encode(Utf8Decode(buffer.tail)))
    ELSE text

\* ------------------------------------------------------------ the inputs
PostKinds == {"noText", "ok", "scoreErr"}

PostSeqs == UNION {[1..n -> PostKinds] : n \in 0..MaxPosts}

SearchError == [error |-> TRUE, posts |-> <<>>]

SearchOutcomes == {SearchError} \cup {[error |-> FALSE, posts |-> p] : p \in PostSeqs}

KPError == [error |-> TRUE, phrases |-> <<>>]

NoPhrases == [error |-> FALSE, phrases |-> <<>>]

KPResponses ==
  { KPError,
    NoPhrases,
    [error |-> FALSE,
     phrases |-> <<<<"C", "a", "t">>, <<"d", "o", "g">>, <<"T", "o", "p">>, <<"a", "b">>>>],
    [error |-> FALSE,
     phrases |-> <<<<"c", "a", "t", " ">>, <<"e", "e", "l">>, <<"f", "o", "x">>, <<"D", "o", "g">>>>] }

CallNames ==
  { "getQueryDetails", "scan", "login", "searchPosts", "detectSentiment",
    "putResult", "subscribe", "detectKeyPhrases", "addSubtopic",
    "getSubtopics", "putSubResult", "publish", "deleteSchedule",
    "scanFailed", "subscribeFailed", "publishFailed", "deleteError",
    "loginFailed", "getSubtopicsFailed", "selected", "addSubtopicFailed" }

NoCalls == [c \in CallNames |-> 0]

\* ------------------------------------------------- analyzeSentimentForTerm
NoSummary == [totalPostsAnalyzed |-> 0]

\* number of posts with text whose scoring call returned a sentiment
AnalyzedCount(posts) == Cardinality({i \in DOMAIN posts : posts[i] = "ok"})

\* the posts submitted to the scorer or the extractor: those with non-empty text
PostsWithText(posts) == {i \in DOMAIN posts : posts[i] # "noText"}

\* 1 when the Promise.all over the posts issues at least one call
ScoringCalls(posts) == IF PostsWithText(posts) = {} THEN 0 ELSE 1

AnalyzeSentimentForTerm(searchResult) ==
  IF searchResult.error
    THEN [summary |-> NoSummary, posts |-> <<>>]
    ELSE IF Len(searchResult.posts) = 0
      THEN [summary |-> NoSummary, posts |-> <<>>]
      ELSE IF AnalyzedCount(searchResult.posts) = 0
        THEN [summary |-> NoSummary, posts |-> searchResult.posts]
        ELSE [summary |-> [totalPostsAnalyzed |-> AnalyzedCount(searchResult.posts)],
              posts |-> searchResult.posts]

\* variant: a summary with zero scored posts is stored like any other
HasSummaryAlways(res) == TRUE

\* if (result.summary): null when no post was scored
HasSummary(res) == res.summary # NoSummary

\* what the handler can get back from analyzeSentimentForTerm for a search of
\* at most limit posts: the summary, the posts when the caller reads them,
\* and whether a scoring batch was issued
TermAnalyses(limit, readsPosts) ==
  { LET res == AnalyzeSentimentForTerm(sr)
    IN [summary |-> res.summary,
        posts |-> IF readsPosts THEN res.posts ELSE <<>>,
        scored |-> ScoringCalls(sr.posts),
        searchError |-> sr.error] :
      sr \in {s \in SearchOutcomes : Len(s.posts) <= limit} }

\* ---- the summary in full: a post is "noText", "scoreErr" or the Sentiment
\* that DetectSentiment returned for it, with score 1 for that sentiment
Sentiments == {"POSITIVE", "NEGATIVE", "NEUTRAL", "MIXED"}

ScoredPostKinds == {"noText", "scoreErr"} \cup Sentiments

PostsLabelled(posts, sentiment) == Cardinality({i \in DOMAIN posts : posts[i] = sentiment})

\* variant: a post whose scoring call failed is counted as analyzed
AnalyzedPostsWithErrors(posts) ==
  Cardinality({i \in DOMAIN posts : posts[i] # "noText"})

\* analyzedCount: sentimentAnalysis && !error && sentiment
AnalyzedPosts(posts) == Cardinality({i \in DOMAIN posts : posts[i] \in Sentiments})

\* total / analyzedCount, kept as the pair
Average(total, analyzedCount) == [total |-> total, over |-> analyzedCount]

SentimentSummary(posts) ==
  [totalPostsAnalyzed |-> AnalyzedPosts(posts),
   positivePosts |-> PostsLabelled(posts, "POSITIVE"),
   negativePosts |-> PostsLabelled(posts, "NEGATIVE"),
   neutralPosts |-> PostsLabelled(posts, "NEUTRAL"),
   mixedPosts |-> PostsLabelled(posts, "MIXED"),
   avgPositiveScore |-> Average(PostsLabelled(posts, "POSITIVE"), AnalyzedPosts(posts)),
   avgNegativeScore |-> Average(PostsLabelled(posts, "NEGATIVE"), AnalyzedPosts(posts)),
   avgNeutralScore |-> Average(PostsLabelled(posts, "NEUTRAL"), AnalyzedPosts(posts)),
   avgMixedScore |-> Average(PostsLabelled(posts, "MIXED"), AnalyzedPosts(posts))]

\* the item of storeAnalysisResults and storeSubtopicAnalysisResults, its
\* sentiment attributes
ResultItem(summary) ==
  [PostsAnalyzed |-> summary.totalPostsAnalyzed,
   PositivePosts |-> summary.positivePosts,
   NegativePosts |-> summary.negativePosts,
   NeutralPosts |-> summary.neutralPosts,
   MixedPosts |-> summary.mixedPosts,
   AvgPositiveScore |-> summary.avgPositiveScore,
   AvgNegativeScore |-> summary.avgNegativeScore,
   AvgNeutralScore |-> summary.avgNeutralScore,
   AvgMixedScore |-> summary.avgMixedScore]

\* --------------------------------------------- key phrases and subtopics
NormalizePhrase(phrase) == Trim(ToLowerCase(phrase))

RECURSIVE Flatten(_)
Flatten(ss) == IF ss = <<>> THEN <<>> ELSE Head(ss) \o Flatten(Tail(ss))

\* phrases of the posts whose key-phrase call did not fail, in post order
UsablePhrases(kp) ==
  Flatten([i \in DOMAIN kp |-> IF kp[i].error THEN <<>> ELSE kp[i].phrases])

\* phraseCounts is an object literal: a key that Object.prototype defines
\* reads as the inherited value, not as undefined
Constructor == <<"c", "o", "n", "s", "t", "r", "u", "c", "t", "o", "r">>

InheritedKeys == {Constructor}

\* a count that is no number: the inherited function with 1 appended as text
NotANumber == -1

\* phraseCounts[p] = (phraseCounts[p] || 0) + 1
AddCount(counts, p) ==
  IF \E i \in DOMAIN counts : counts[i].phrase = p
    THEN [i \in DOMAIN counts |->
            IF counts[i].phrase = p
              THEN [phrase |-> p,
                    count |-> IF counts[i].count = NotANumber
                                THEN NotANumber ELSE counts[i].count + 1]
              ELSE counts[i]]
    ELSE Append(counts, [phrase |-> p,
                         count |-> IF p \in InheritedKeys THEN NotANumber ELSE 1])

PhraseAccepted(normalizedPhrase, mainTopic) ==
  /\ normalizedPhrase # <<>>
  /\ Len(normalizedPhrase) > MinPhraseLength
  /\ normalizedPhrase # NormalizePhrase(mainTopic)

RECURSIVE PhraseCounts(_, _, _)
PhraseCounts(phrases, mainTopic, counts) ==
  IF phrases = <<>> THEN counts
  ELSE LET n == NormalizePhrase(Head(phrases))
       IN PhraseCounts(Tail(phrases), mainTopic,
                       IF PhraseAccepted(n, mainTopic) THEN AddCount(counts, n) ELSE counts)

\* Array.prototype.sort with (a, b) => b.count - a.count: stable, descending
RECURSIVE SortedPhrases(_)
SortedPhrases(counts) ==
  IF counts = <<>> THEN <<>>
  ELSE LET m == CHOOSE c \in {counts[i].count : i \in DOMAIN counts} :
                  \A j \in DOMAIN counts : counts[j].count <= c
           k == CHOOSE i \in DOMAIN counts :
                  /\ counts[i].count = m
                  /\ \A j \in DOMAIN counts : counts[j].count = m => i <= j
       IN <<counts[k]>> \o
          SortedPhrases([i \in 1..(Len(counts) - 1) |->
                           IF i < k THEN counts[i] ELSE counts[i + 1]])

\* variant: one selected phrase too many
KeepSubtopicsOneMore(potential) == Slice(potential, SUBTOPIC_COUNT + 1)

KeepSubtopics(potential) == Slice(potential, SUBTOPIC_COUNT)

\* the top SUBTOPIC_COUNT + 1 entries, the main topic filtered out, the
\* first SUBTOPIC_COUNT kept
SelectFrom(sorted, mainTopic) ==
  LET top == Slice(sorted, SUBTOPIC_COUNT + 1)
      potentialSubtopics == [i \in DOMAIN top |-> top[i].phrase]
      notMain(p) == NormalizePhrase(p) # NormalizePhrase(mainTopic)
  IN KeepSubtopics(SelectSeq(potentialSubtopics, notMain))

FinalSubtopics(kp, mainTopic) ==
  SelectFrom(SortedPhrases(PhraseCounts(UsablePhrases(kp), mainTopic, <<>>)), mainTopic)

\* the orders sort can leave the entries in: countB - countA is NaN against a
\* count that is no number, and with an inconsistent comparator the order is
\* implementation-defined
SortOrders(counts) ==
  IF \A i \in DOMAIN counts : counts[i].count # NotANumber
    THEN {SortedPhrases(counts)}
    ELSE {[i \in DOMAIN counts |-> counts[f[i]]] :
            f \in {g \in [DOMAIN counts -> DOMAIN counts] :
                     \A i, j \in DOMAIN counts : g[i] = g[j] => i = j}}

\* the subtopics the first run can select from the phrases of its posts
PossibleSubtopics(phrases, mainTopic) ==
  {SelectFrom(sorted, mainTopic) : sorted \in SortOrders(PhraseCounts(phrases, mainTopic, <<>>))}

TruncatedSubtopic(subtopic) == Slice(subtopic, MAX_SUBTOPIC_LENGTH)

\* variant: CANCELLED is not treated as terminal
IsTerminalStatusCompletedOnly(status) == status = "COMPLETED"

\* --------------------------------------------------------- handler guards
IsTerminalStatus(status) == status = "COMPLETED" \/ status = "CANCELLED"

\* the ScanCommand filter: QueryID = :qid AND IsSubtopic = false, Select COUNT
MainRunCount(table, qid) ==
  Cardinality({r \in table : r.QueryID = qid /\ r.IsSubtopic = FALSE})

\* variant: the early exit compares with > instead of >=
EarlyExitReachedStrict(runCount, numIntervals) == runCount > numIntervals

\* the early exit: currentRunCount >= queryDetails.NumIntervals
EarlyExitReached(runCount, numIntervals) == runCount >= numIntervals

\* variant: the final check compares with > instead of >=
FinalReachedStrict(effective, numIntervals) == effective > numIntervals

\* the final check: effectiveRunCountAfterThisExecution >= queryDetails.NumIntervals
FinalReached(effective, numIntervals) == effective >= numIntervals

\* variant: every run is treated as the first
IsFirstRunAlways(runCount) == runCount >= 0

IsFirstRun(runCount) == runCount = 0

\* variant: the attempt counts whether or not the record was stored
EffectiveRunCountAttempted(runCount, stored) == runCount + 1

\* currentRunCount + (mainTopicStoredSuccessfullyThisRun ? 1 : 0)
EffectiveRunCount(runCount, stored) == runCount + (IF stored THEN 1 ELSE 0)

\* variant: a failed login is logged and the handler carries on
AfterLoginSwallowed(ok) == "main"

\* agent.login: the catch rethrows, ending the invocation
AfterLogin(ok) == IF ok THEN "main" ELSE "idle"

\* ------------------------------------------------------- store operations
\* getQueryDetails: GetCommand on (QueryID, Topic) when a hint is given, then
\* the QueryCommand on QueryID alone; the empty set stands for the thrown error
NoHint == <<>>

\* variant: no QueryCommand fallback when a hint was given
GetQueryDetailsNoFallback(table, qid, topicHint, getOk, queryOk) ==
  IF topicHint # NoHint
    THEN IF getOk THEN {r \in table : r.QueryID = qid /\ r.Topic = topicHint} ELSE {}
    ELSE IF queryOk THEN {r \in table : r.QueryID = qid} ELSE {}

GetQueryDetails(table, qid, topicHint, getOk, queryOk) ==
  LET byKey == IF topicHint # NoHint /\ getOk
                 THEN {r \in table : r.QueryID = qid /\ r.Topic = topicHint}
                 ELSE {}
      byQuery == IF queryOk THEN {r \in table : r.QueryID = qid} ELSE {}
  IN IF byKey # {} THEN byKey ELSE byQuery

MainItem(dataId, qid, topic, analyzed) ==
  [DataID |-> dataId, QueryID |-> qid, Topic |-> topic, MainTopic |-> NoMainTopic,
   IsSubtopic |-> FALSE]

SubtopicItem(dataId, qid, subtopic, mainTopic, analyzed) ==
  [DataID |-> dataId, QueryID |-> qid, Topic |-> subtopic, MainTopic |-> mainTopic,
   IsSubtopic |-> TRUE]

\* PutCommand on the Data table: the item replaces the one with its key, if any
PutItem(table, item) == {r \in table : r.DataID # item.DataID} \cup {item}

\* variant: the delete command is never sent
ScheduleAfterDeleteIgnored(exists, del) == exists

\* the schedule after deleteSchedule: every error is swallowed
ScheduleAfterDelete(exists, del) == IF del = "ok" THEN FALSE ELSE exists

\* the subtopic registry keyed by (QueryID, Subtopic)
AddSubtopicRecord(tbl, label) ==
  IF label \in Range(tbl) THEN tbl ELSE Append(tbl, label)

RECURSIVE AddSubtopicRecords(_, _, _)
AddSubtopicRecords(tbl, labels, delivered) ==
  IF labels = <<>> THEN tbl
  ELSE AddSubtopicRecords(
         IF Head(labels) \in delivered
           THEN AddSubtopicRecord(tbl, TruncatedSubtopic(Head(labels)))
           ELSE tbl,
         Tail(labels), delivered)

\* variant: the calls are issued one after the other, the first failure ends them
RegistrationCallsUntilFailure(labels, delivered) ==
  LET failed == {i \in DOMAIN labels : labels[i] \notin delivered}
  IN IF failed = {} THEN Len(labels)
     ELSE CHOOSE i \in failed : \A j \in failed : i <= j

\* Promise.all(finalSubtopics.map(triggerAddSubtopicLambda)): one InvokeCommand
\* per selected phrase, its error caught inside triggerAddSubtopicLambda
RegistrationCalls(labels, delivered) == Len(labels)

GetSubtopics(tbl, ok) ==
  LET nonEmpty(x) == Trim(x) # <<>>
  IN IF ok THEN SelectSeq(tbl, nonEmpty) ELSE <<>>

\* ------------------------------------------------------------------ state
VARIABLES
  queriesTable,     \* Queries table: the Topic records
  dataTable,        \* Data table: the Result records
  counter,          \* CurrentValue of the DataCounter record (0: absent)
  subtopicTable,    \* subtopic labels registered for QueryId
  schedule,         \* the EventBridge schedule BlueskyAnalysis-Query-<id> exists
  subscriptions,    \* addresses subscribed to the SNS topic
  published,        \* completion notifications published
  pc,               \* position of the invocation in flight ("idle": none)
  event,            \* the event of the current invocation
  queryDetails,     \* handler local
  currentRunCount,  \* handler local
  mainStored,       \* handler local mainTopicStoredSuccessfullyThisRun
  mainTopicPosts,   \* handler local mainTopicAnalysisResult.posts
  subtopics,        \* handler local: the list returned by getSubtopics
  subIdx,           \* handler local: position of the for loop over subtopics
  mainScored,       \* this invocation's main-topic analysis scored at least one post
  subOutcome,       \* what the last iteration of the subtopic loop met
  response,         \* what the last invocation returned to its caller
  calls,            \* external calls issued by the current (or last) invocation
  outcome,          \* how the last invocation ended
  invocations,      \* invocations started so far
  completed,        \* an invocation has returned with effective run count >= NumIntervals
  unhappy,          \* an invocation failed, stored no main record or met a failing call
  lookup,           \* a getQueryDetails call on its own: inputs and result
  trigger,          \* deleteSchedule calls on their own: schedules, inputs, results
  callers,          \* concurrent getNextDataId calls: position and result of each
  staleScans,       \* run-count scans so far that missed a stored main-topic record
  truncation,       \* a post text on its own: the text and what is sent to Comprehend
  batch,            \* an analyzeSentimentForTerm batch on its own: posts and stored record
  selection,        \* a first-run subtopic selection on its own: phrases and result
  deployed          \* the TypeScript handler and the compiled blueskyLambda.js side by side

vars ==
  << queriesTable, dataTable, counter, subtopicTable, schedule, subscriptions,
     published, pc, event, queryDetails, currentRunCount, mainStored,
     mainTopicPosts, subtopics, subIdx, mainScored, subOutcome, response, calls,
     outcome, invocations, completed, unhappy, lookup, trigger, callers, staleScans,
     truncation, batch, selection, deployed >>

\* the state of the calls studied on their own, untouched by the handler
aux == << lookup, trigger, callers, truncation, batch, selection, deployed >>

\* the functions studied on their own
pure == << truncation, batch, selection, deployed >>

stores == << queriesTable, dataTable, counter, subtopicTable, schedule, subscriptions, published >>

NoDetails ==
  [QueryID |-> 0, Topic |-> <<>>, Email |-> "", NumIntervals |-> 0,
   PostsToAnalyze |-> 0, Status |-> "none"]

TopicRecord(n, st) ==
  [QueryID |-> QueryId, Topic |-> MainTopicName, Email |-> OwnerEmail,
   NumIntervals |-> n, PostsToAnalyze |-> MaxPosts, Status |-> st]

Statuses == {"ACTIVE", "COMPLETED", "CANCELLED"}

\* no iteration of the subtopic loop has run
NoOutcome == [summary |-> FALSE, error |-> "none"]

\* the handler resolved to undefined
Nothing ==
  [statusCode |-> 0, mainTopicStored |-> FALSE, runCountAfter |-> 0, intervalsNeeded |-> 0]

\* the 400 returned to a manual caller without a usable queryId
BadRequest ==
  [statusCode |-> 400, mainTopicStored |-> FALSE, runCountAfter |-> 0, intervalsNeeded |-> 0]

\* the 200 returned to a manual caller at the end of the handler
IntervalSummary(stored, after, needed) ==
  [statusCode |-> 200, mainTopicStored |-> stored, runCountAfter |-> after,
   intervalsNeeded |-> needed]

\* what the end of the handler returns: the summary unless the event is scheduled
FinalResponse(kind, stored, after, needed) ==
  IF kind = "scheduled" THEN Nothing ELSE IntervalSummary(stored, after, needed)

\* ---- inputs of the calls studied on their own
QueryIds == {QueryId, QueryId + 1}

LookupTopics == {MainTopicName, <<"x">>}

LookupRecords ==
  {[TopicRecord(MaxIntervals, "ACTIVE") EXCEPT !.QueryID = q, !.Topic = t] :
     q \in QueryIds, t \in LookupTopics}

NoLookup ==
  [table |-> {}, qid |-> QueryId, hint |-> NoHint, getOk |-> TRUE, queryOk |-> TRUE,
   done |-> FALSE, found |-> {}]

LookupInputs ==
  {[NoLookup EXCEPT !.table = t, !.qid = q, !.hint = h, !.getOk = g, !.queryOk = k] :
     t \in SUBSET LookupRecords, q \in QueryIds,
     h \in {NoHint} \cup LookupTopics, g \in BOOLEAN, k \in BOOLEAN}

\* const scheduleName = `BlueskyAnalysis-Query-${queryId}`
ScheduleName(qid) == <<"BlueskyAnalysis-Query-", qid>>

NoTrigger ==
  [before |-> {}, schedules |-> {}, qid |-> QueryId, calls |-> 0, faults |-> 0,
   afterFirst |-> {}, threw |-> FALSE]

TriggerInputs ==
  {[NoTrigger EXCEPT !.before = ss, !.schedules = ss, !.qid = q] :
     ss \in SUBSET {ScheduleName(i) : i \in QueryIds}, q \in QueryIds}

Callers == 1..MaxCallers

IdleCaller ==
  [pc |-> "idle", floor |-> 0, ret |-> 0, raced |-> FALSE, err |-> "none", put |-> "none"]

NoCallers == [p \in Callers |-> IdleCaller]

\* ---- inputs of the functions studied on their own
\* post texts around the limit: one-byte code points, then a few of any width
PostTexts ==
  {Utf8Text(n, Utf8Encode(points)) :
     n \in (MAX_COMPREHEND_BYTES - 4)..(MAX_COMPREHEND_BYTES + 1),
     points \in UNION {[1..k -> 1..4] : k \in 0..MaxPoints}}

NoTruncation == [text |-> Utf8Text(0, <<>>), sent |-> Utf8Text(0, <<>>), done |-> FALSE]

\* what a search with limit PostsToAnalyze returns, post by post
BatchInputs == UNION {[1..n -> ScoredPostKinds] : n \in 0..MaxPosts}

NoBatch ==
  [limit |-> 0, posts |-> <<>>, done |-> FALSE, stored |-> FALSE,
   item |-> ResultItem(SentimentSummary(<<>>))]

\* key phrases as DetectKeyPhrases returns them
SomePhrases ==
  { <<"C", "a", "t">>, <<"c", "a", "t", " ">>, <<"d", "o", "g">>, <<"e", "e", "l">>,
    <<"T", "o", "p">>, <<"a", "b">>, Constructor }

SelectionInputs == UNION {[1..n -> SomePhrases] : n \in 0..MaxPhrases}

NoSelection == [phrases |-> <<>>, mainTopic |-> NoMainTopic, done |-> FALSE, chosen |-> <<>>]

\* the stores of one build before its first invocation; outcome is "returned"
\* or the error the last invocation ended with
NewWorld ==
  [records |-> <<>>, published |-> 0, deletes |-> 0, schedule |-> TRUE, outcome |-> "none"]

NoDeployed == [numIntervals |-> 0, ts |-> NewWorld, js |-> NewWorld, runs |-> 0]

PureIdle ==
  /\ truncation = NoTruncation
  /\ batch = NoBatch
  /\ selection = NoSelection
  /\ deployed = NoDeployed

\* the handler and its stores before the first invocation, the Topic records
\* and the counter aside
Quiescent ==
  /\ dataTable = {}
  /\ subtopicTable = <<>>
  /\ schedule = TRUE
  /\ subscriptions = {}
  /\ published = 0
  /\ pc = "idle"
  /\ event = [kind |-> "none", valid |-> FALSE, afterCompletion |-> FALSE,
              pendingDelete |-> FALSE]
  /\ queryDetails = NoDetails
  /\ currentRunCount = 0
  /\ mainStored = FALSE
  /\ mainTopicPosts = <<>>
  /\ subtopics = <<>>
  /\ subIdx = 0
  /\ mainScored = FALSE
  /\ subOutcome = NoOutcome
  /\ response = Nothing
  /\ calls = NoCalls
  /\ outcome = "none"
  /\ invocations = 0
  /\ completed = FALSE
  /\ unhappy = FALSE
  /\ staleScans = 0

Init ==
  /\ queriesTable \in
       {{}} \cup {{TopicRecord(n, st)} : n \in 1..MaxIntervals, st \in Statuses}
  /\ counter = 0
  /\ Quiescent
  /\ lookup = NoLookup
  /\ trigger = NoTrigger
  /\ callers = NoCallers
  /\ PureIdle

Called(c, n) == [calls EXCEPT ![c] = @ + n]

locals ==
  << queryDetails, currentRunCount, mainStored, mainTopicPosts, subtopics, subIdx,
     mainScored, subOutcome >>

\* ---------------------------------------------------------------- actions
Invoke(kind) ==
  /\ pc = "idle"
  /\ invocations < MaxInvocations
  /\ \E valid \in BOOLEAN :
       event' = [kind |-> kind, valid |-> valid,
                 afterCompletion |-> completed,
                 pendingDelete |-> (schedule /\ queriesTable # {} /\
                    \A r \in queriesTable :
                       Cardinality({d \in dataTable : d.QueryID = r.QueryID /\ ~d.IsSubtopic})
                         >= r.NumIntervals)]
  /\ pc' = "extract"
  /\ queryDetails' = NoDetails
  /\ currentRunCount' = 0
  /\ mainStored' = FALSE
  /\ mainTopicPosts' = <<>>
  /\ subtopics' = <<>>
  /\ subIdx' = 0
  /\ mainScored' = FALSE
  /\ subOutcome' = NoOutcome
  /\ response' = Nothing
  /\ calls' = NoCalls
  /\ outcome' = "running"
  /\ invocations' = invocations + 1
  /\ UNCHANGED << stores, completed, unhappy, staleScans, aux >>

\* the schedule fires, or the host redelivers an invocation that failed
ScheduledInvoke ==
  /\ schedule \/ outcome = "threw"
  /\ Invoke("scheduled")

\* API Gateway or manual test invocation
ManualInvoke == Invoke("manual")

ExtractQueryInfo ==
  /\ pc = "extract"
  /\ IF event.valid
       THEN /\ pc' = "fetch"
            /\ UNCHANGED << outcome, unhappy >>
       ELSE /\ pc' = "idle"
            /\ outcome' = IF event.kind = "scheduled" THEN "threw" ELSE "badRequest"
            /\ unhappy' = TRUE
  /\ response' = IF ~event.valid /\ event.kind # "scheduled" THEN BadRequest ELSE Nothing
  /\ UNCHANGED << stores, event, locals, calls, invocations, completed, staleScans, aux >>

FetchQueryDetails ==
  /\ pc = "fetch"
  /\ \E topicHint \in {NoHint, MainTopicName, <<"x">>}, getOk \in BOOLEAN, queryOk \in BOOLEAN,
        del \in {"ok", "error"} :
       LET found == GetQueryDetails(queriesTable, QueryId, topicHint, getOk, queryOk)
       IN IF found = {}
            THEN /\ pc' = "idle"
                 /\ outcome' = "threw"
                 /\ unhappy' = TRUE
                 /\ calls' = Called("getQueryDetails", 1)
                 /\ UNCHANGED << schedule, queryDetails >>
            ELSE LET qd == CHOOSE r \in found : TRUE
                 IN /\ queryDetails' = qd
                    /\ IF IsTerminalStatus(qd.Status)
                         THEN /\ schedule' = ScheduleAfterDelete(schedule, del)
                              /\ calls' = [calls EXCEPT
                                   !["getQueryDetails"] = @ + 1,
                                   !["deleteSchedule"] = @ + 1,
                                   !["deleteError"] = @ + (IF del = "error" THEN 1 ELSE 0)]
                              /\ pc' = "idle"
                              /\ outcome' = "returned"
                              /\ unhappy' = TRUE
                         ELSE /\ calls' = Called("getQueryDetails", 1)
                              /\ pc' = "scan"
                              /\ UNCHANGED << schedule, outcome, unhappy >>
  /\ UNCHANGED << queriesTable, dataTable, counter, subtopicTable, subscriptions,
                  published, event, currentRunCount, mainStored, mainTopicPosts,
                  subtopics, subIdx, mainScored, subOutcome, response, invocations,
                  completed, staleScans, aux >>

\* the ScanCommand answered with Count = count, then the early-exit test
RunCountScan(count) ==
  /\ pc = "scan"
  /\ calls' = Called("scan", 1)
  /\ currentRunCount' = count
  /\ staleScans' =
       staleScans + (IF currentRunCount' < MainRunCount(dataTable, QueryId) THEN 1 ELSE 0)
  /\ pc' = IF EarlyExitReached(currentRunCount', queryDetails.NumIntervals)
             THEN "earlyExit" ELSE "login"
  /\ UNCHANGED << stores, event, queryDetails, mainStored, mainTopicPosts, subtopics,
                  subIdx, mainScored, subOutcome, response, outcome, invocations,
                  completed, unhappy, aux >>

\* the scan fails: the catch throws 'Failed to fetch run count'
RunCountScanFails ==
  /\ pc = "scan"
  /\ calls' = [calls EXCEPT !["scan"] = @ + 1, !["scanFailed"] = @ + 1]
  /\ pc' = "idle"
  /\ outcome' = "threw"
  /\ unhappy' = TRUE
  /\ UNCHANGED << stores, event, locals, response, invocations, completed,
                  staleScans, aux >>

\* the scan of a table that fits in one page, read after every earlier write
CheckRunCount ==
  \/ RunCountScan(MainRunCount(dataTable, QueryId))
  \/ RunCountScanFails

\* The ScanCommand is sent once, without ConsistentRead and without following
\* LastEvaluatedKey: Count covers the items of the first page (1 MB of the
\* table) as the replica that answers holds them.
ScanPages(table) == SUBSET table

\* the scan answers with a count that misses a stored main-topic record
CheckRunCountPartial ==
  /\ pc = "scan"
  /\ \E count \in {MainRunCount(page, QueryId) : page \in ScanPages(dataTable)} :
       /\ count < MainRunCount(dataTable, QueryId)
       /\ RunCountScan(count)

\* variant: a failed publish is logged and the handler goes on to the delete
DeleteReachedAfterFailure(hasEmail, pub) == TRUE

\* await triggerEmailNotification(...); await deleteSchedule(...): the publish
\* is outside any try block, so its error leaves the handler before the delete
DeleteReached(hasEmail, pub) == ~(hasEmail /\ pub = "fail")

\* triggerEmailNotification(queryDetails) followed by deleteSchedule(queryId):
\* a failed publish throws out of the handler before the delete
NotifyThenDelete ==
  \E pub \in {"ok", "fail"}, del \in {"ok", "error"} :
    LET hasEmail == queryDetails.Email # ""
        failed == hasEmail /\ pub = "fail"
        reached == DeleteReached(hasEmail, pub)
    IN /\ calls' = [calls EXCEPT
            !["publish"] = @ + (IF hasEmail THEN 1 ELSE 0),
            !["publishFailed"] = @ + (IF failed THEN 1 ELSE 0),
            !["deleteSchedule"] = @ + (IF reached THEN 1 ELSE 0),
            !["deleteError"] = @ + (IF reached /\ del = "error" THEN 1 ELSE 0)]
       /\ published' = published + (IF hasEmail /\ ~failed THEN 1 ELSE 0)
       /\ schedule' = IF reached THEN ScheduleAfterDelete(schedule, del) ELSE schedule
       /\ pc' = "idle"
       /\ outcome' = IF reached THEN "returned" ELSE "threw"
       /\ completed' = (completed \/ reached)
       /\ unhappy' = IF reached THEN (unhappy \/ del = "error") ELSE TRUE

EarlyExit ==
  /\ pc = "earlyExit"
  /\ NotifyThenDelete
  /\ UNCHANGED << queriesTable, dataTable, counter, subtopicTable, subscriptions,
                  event, locals, response, invocations, staleScans, aux >>

Login ==
  /\ pc = "login"
  /\ \E ok \in BOOLEAN :
       /\ calls' = [calls EXCEPT !["login"] = @ + 1,
                                 !["loginFailed"] = @ + (IF ok THEN 0 ELSE 1)]
       /\ pc' = AfterLogin(ok)
       /\ IF pc' = "main"
            THEN UNCHANGED << outcome, unhappy >>
            ELSE /\ outcome' = "threw"
                 /\ unhappy' = TRUE
  /\ UNCHANGED << stores, event, locals, response, invocations, completed, staleScans, aux >>

StoreOutcomes == {"ok", "counterFail", "putFail"}

\* variant: the counter is read without being incremented
CounterAfterStuck(value, st) == value

\* getNextDataId: the atomic increment of CurrentValue, unless the update fails
CounterAfter(value, st) == IF st = "counterFail" THEN value ELSE value + 1

\* the try block around the main topic: analyzeSentimentForTerm, then
\* storeAnalysisResults when a summary was produced
AnalyzeMainTopic ==
  /\ pc = "main"
  /\ \E res \in TermAnalyses(queryDetails.PostsToAnalyze, IsFirstRun(currentRunCount)),
        st \in StoreOutcomes :
       LET scored == res.scored
       IN /\ ~HasSummary(res) => st = "ok"
          /\ IF HasSummary(res)
               THEN /\ counter' = CounterAfter(counter, st)
                    /\ dataTable' =
                         IF st = "ok"
                           THEN PutItem(dataTable,
                                        MainItem(counter', QueryId, queryDetails.Topic,
                                                 res.summary.totalPostsAnalyzed))
                           ELSE dataTable
                    /\ mainStored' = (st = "ok")
                    /\ mainScored' = (res.summary.totalPostsAnalyzed > 0)
                    /\ mainTopicPosts' =
                         IF st = "ok" /\ IsFirstRun(currentRunCount) THEN res.posts ELSE <<>>
                    /\ calls' = [calls EXCEPT
                         !["searchPosts"] = @ + 1,
                         !["detectSentiment"] = @ + scored,
                         !["putResult"] = @ + (IF st = "counterFail" THEN 0 ELSE 1)]
                    /\ pc' = IF st = "ok" /\ IsFirstRun(currentRunCount)
                               THEN "firstRun" ELSE "subtopics"
                    /\ unhappy' = (unhappy \/ st # "ok")
               ELSE /\ calls' = [calls EXCEPT
                         !["searchPosts"] = @ + 1,
                         !["detectSentiment"] = @ + scored]
                    /\ pc' = "subtopics"
                    /\ unhappy' = TRUE
                    /\ UNCHANGED << counter, dataTable, mainStored, mainTopicPosts,
                                    mainScored >>
  /\ UNCHANGED << queriesTable, subtopicTable, schedule, subscriptions, published,
                  event, queryDetails, currentRunCount, subtopics, subIdx, subOutcome,
                  response, outcome, invocations, completed, staleScans, aux >>

\* key-phrase responses, one per post; a post without text gets no call
KPAssignments(posts) ==
  {f \in [DOMAIN posts -> KPResponses] :
     \A i \in DOMAIN posts : posts[i] = "noText" => f[i] = NoPhrases}

\* the first-run block inside the try: subscribe the owner, extract key
\* phrases, select and register the subtopics
FirstRunActions ==
  /\ pc = "firstRun"
  /\ \E subOk \in BOOLEAN :
       IF ~subOk
         THEN /\ calls' = [calls EXCEPT !["subscribe"] = @ + 1, !["subscribeFailed"] = @ + 1]
              /\ UNCHANGED << subscriptions, subtopicTable >>
         ELSE /\ subscriptions' = subscriptions \cup {queryDetails.Email}
              /\ IF Len(mainTopicPosts) > 0
                   THEN \E finalSubtopics \in
                             {FinalSubtopics(kp, queryDetails.Topic) :
                                kp \in KPAssignments(mainTopicPosts)} :
                             \E delivered \in SUBSET Range(finalSubtopics) :
                               /\ subtopicTable' =
                                    AddSubtopicRecords(subtopicTable, finalSubtopics, delivered)
                               /\ calls' = [calls EXCEPT
                                    !["subscribe"] = @ + 1,
                                    !["detectKeyPhrases"] = @ + ScoringCalls(mainTopicPosts),
                                    !["selected"] = @ + Len(finalSubtopics),
                                    !["addSubtopic"] =
                                       @ + RegistrationCalls(finalSubtopics, delivered),
                                    !["addSubtopicFailed"] =
                                       @ + Cardinality(Range(finalSubtopics) \ delivered)]
                   ELSE /\ calls' = Called("subscribe", 1)
                        /\ UNCHANGED subtopicTable
  /\ pc' = "subtopics"
  /\ mainTopicPosts' = <<>>
  /\ UNCHANGED << queriesTable, dataTable, counter, schedule, published, event,
                  queryDetails, currentRunCount, mainStored, subtopics, subIdx,
                  mainScored, subOutcome, response, outcome, invocations, completed,
                  unhappy, staleScans, aux >>

\* variant: the subtopics are analyzed only when the main record was stored
SubtopicBranchTakenIfStored(runCount, stored) == runCount > 0 /\ stored

\* if (currentRunCount > 0), whatever mainTopicStoredSuccessfullyThisRun is
SubtopicBranchTaken(runCount, stored) == runCount > 0

\* the subtopic branch: getSubtopics, then the loop over the list
ListSubtopics ==
  /\ pc = "subtopics"
  /\ IF SubtopicBranchTaken(currentRunCount, mainStored)
       THEN \E ok \in BOOLEAN :
              /\ subtopics' = GetSubtopics(subtopicTable, ok)
              /\ calls' = [calls EXCEPT !["getSubtopics"] = @ + 1,
                                        !["getSubtopicsFailed"] = @ + (IF ok THEN 0 ELSE 1)]
              /\ subIdx' = IF Len(subtopics') = 0 THEN 0 ELSE 1
              /\ pc' = IF Len(subtopics') = 0 THEN "final" ELSE "subLoop"
       ELSE /\ pc' = "final"
            /\ UNCHANGED << subtopics, subIdx, calls >>
  /\ UNCHANGED << stores, event, queryDetails, currentRunCount, mainStored,
                  mainTopicPosts, mainScored, subOutcome, response, outcome,
                  invocations, completed, unhappy, staleScans, aux >>

\* variant: the try/catch wraps the whole loop, an error ends it
LoopContinuesUnlessError(error) == error = "none"

\* the try/catch is inside the for loop: an error is logged, the loop goes on
LoopContinues(error) == TRUE

\* one iteration of the loop: analyzeSentimentForTerm for the subtopic and
\* storeSubtopicAnalysisResults, every error caught per subtopic
AnalyzeSubtopic ==
  /\ pc = "subLoop"
  /\ \E res \in TermAnalyses(queryDetails.PostsToAnalyze, FALSE), st \in StoreOutcomes :
       LET scored == res.scored
       IN /\ ~HasSummary(res) => st = "ok"
          /\ IF HasSummary(res)
               THEN /\ counter' = CounterAfter(counter, st)
                    /\ dataTable' =
                         IF st = "ok"
                           THEN PutItem(dataTable,
                                        SubtopicItem(counter', QueryId, subtopics[subIdx],
                                                     queryDetails.Topic,
                                                     res.summary.totalPostsAnalyzed))
                           ELSE dataTable
                    /\ calls' = [calls EXCEPT
                         !["searchPosts"] = @ + 1,
                         !["detectSentiment"] = @ + scored,
                         !["putSubResult"] = @ + (IF st = "counterFail" THEN 0 ELSE 1)]
                    /\ subOutcome' =
                         [summary |-> TRUE, error |-> IF st = "ok" THEN "none" ELSE "store"]
               ELSE /\ calls' = [calls EXCEPT
                         !["searchPosts"] = @ + 1,
                         !["detectSentiment"] = @ + scored]
                    /\ subOutcome' =
                         [summary |-> FALSE,
                          error |-> IF res.searchError THEN "search" ELSE "none"]
                    /\ UNCHANGED << counter, dataTable >>
  /\ IF subIdx < Len(subtopics) /\ LoopContinues(subOutcome'.error)
       THEN /\ subIdx' = subIdx + 1
            /\ pc' = "subLoop"
            /\ UNCHANGED subtopics
       ELSE /\ subIdx' = 0
            /\ subtopics' = <<>>
            /\ pc' = "final"
  /\ UNCHANGED << queriesTable, subtopicTable, schedule, subscriptions, published,
                  event, queryDetails, currentRunCount, mainStored, mainTopicPosts,
                  mainScored, response, outcome, invocations, completed, unhappy, staleScans, aux >>

\* the final check and cleanup, and the return
FinalCheck ==
  /\ pc = "final"
  /\ IF FinalReached(EffectiveRunCount(currentRunCount, mainStored),
                     queryDetails.NumIntervals)
       THEN NotifyThenDelete
       ELSE /\ pc' = "idle"
            /\ outcome' = "returned"
            /\ UNCHANGED << published, schedule, calls, completed, unhappy >>
  /\ response' =
       IF outcome' = "returned"
         THEN FinalResponse(event.kind, mainStored,
                            EffectiveRunCount(currentRunCount, mainStored),
                            queryDetails.NumIntervals)
         ELSE Nothing
  /\ UNCHANGED << queriesTable, dataTable, counter, subtopicTable, subscriptions,
                  event, locals, invocations, staleScans, aux >>

HandlerStep ==
  \/ ExtractQueryInfo
  \/ FetchQueryDetails
  \/ CheckRunCount
  \/ EarlyExit
  \/ Login
  \/ AnalyzeMainTopic
  \/ FirstRunActions
  \/ ListSubtopics
  \/ AnalyzeSubtopic
  \/ FinalCheck

Next ==
  \/ ScheduledInvoke
  \/ ManualInvoke
  \/ HandlerStep

Spec == Init /\ [][Next]_vars

\* the scheduled invocations of the handler on a Data table of any size, read
\* with eventual consistency
StaleNext ==
  \/ ScheduledInvoke
  \/ HandlerStep
  \/ CheckRunCountPartial

StaleSpec == Init /\ [][StaleNext]_vars

\* the schedule keeps firing while it exists and a started invocation runs on
FairSpec == Spec /\ WF_vars(ScheduledInvoke) /\ WF_vars(HandlerStep)

\* ------------------------------------------ a job after its first interval
\* the registries a first interval leaves behind
RegisteredLabels ==
  { << <<"c", "a", "t">> >>, << <<"c", "a", "t">>, <<"d", "o", "g">> >> }

\* the stores after the first interval of a job of MaxIntervals intervals: one
\* main-topic record under DataID 1, the owner subscribed, labels registered
ResumeInit ==
  /\ queriesTable = {TopicRecord(MaxIntervals, "ACTIVE")}
  /\ dataTable = {MainItem(1, QueryId, MainTopicName, 1)}
  /\ counter = 1
  /\ subtopicTable \in RegisteredLabels
  /\ subscriptions = {OwnerEmail}
  /\ schedule = TRUE
  /\ published = 0
  /\ pc = "idle"
  /\ event = [kind |-> "none", valid |-> FALSE, afterCompletion |-> FALSE,
              pendingDelete |-> FALSE]
  /\ queryDetails = NoDetails
  /\ currentRunCount = 0
  /\ mainStored = FALSE
  /\ mainTopicPosts = <<>>
  /\ subtopics = <<>>
  /\ subIdx = 0
  /\ mainScored = FALSE
  /\ subOutcome = NoOutcome
  /\ response = Nothing
  /\ calls = NoCalls
  /\ outcome = "none"
  /\ invocations = 0
  /\ completed = FALSE
  /\ unhappy = FALSE
  /\ staleScans = 0
  /\ lookup = NoLookup
  /\ trigger = NoTrigger
  /\ callers = NoCallers
  /\ PureIdle

\* the later invocations: their run count is never 0, the first-run block is
\* out of reach
ResumeNext ==
  \/ ScheduledInvoke
  \/ ExtractQueryInfo
  \/ FetchQueryDetails
  \/ CheckRunCount
  \/ EarlyExit
  \/ Login
  \/ AnalyzeMainTopic
  \/ ListSubtopics
  \/ AnalyzeSubtopic
  \/ FinalCheck

ResumeSpec == ResumeInit /\ [][ResumeNext]_vars

\* ------------------------------------- getQueryDetails and deleteSchedule
\* everything the handler owns, left alone by the calls studied on their own
handlerVars ==
  << queriesTable, dataTable, subtopicTable, schedule, subscriptions, published, pc,
     event, locals, response, calls, outcome, invocations, completed, unhappy,
     staleScans >>

ApplyGetQueryDetails ==
  /\ ~lookup.done
  /\ lookup' = [lookup EXCEPT
       !.done = TRUE,
       !.found = GetQueryDetails(lookup.table, lookup.qid, lookup.hint,
                                 lookup.getOk, lookup.queryOk)]
  /\ UNCHANGED << handlerVars, counter, trigger, callers, pure >>

\* what the scheduler answers to the DeleteScheduleCommand
DeleteResponse(exists, fault) ==
  IF fault THEN "InternalServerException"
  ELSE IF exists THEN "ok" ELSE "ResourceNotFoundException"

\* variant: a missing schedule is reported to the caller
DeleteScheduleThrowsNotFound(errorName) == errorName = "ResourceNotFoundException"

\* the catch of deleteSchedule logs every error and rethrows none
DeleteScheduleThrows(errorName) == FALSE

\* at most two deleteSchedule(queryId) calls in a row
ApplyDeleteSchedule ==
  /\ trigger.calls < MaxDeleteCalls
  /\ ~trigger.threw
  /\ \E fault \in BOOLEAN :
       LET name == ScheduleName(trigger.qid)
           resp == DeleteResponse(name \in trigger.schedules, fault)
           left == IF ScheduleAfterDelete(name \in trigger.schedules,
                                          IF resp = "ok" THEN "ok" ELSE "error")
                     THEN trigger.schedules
                     ELSE trigger.schedules \ {name}
       IN trigger' = [trigger EXCEPT
            !.schedules = left,
            !.calls = @ + 1,
            !.faults = @ + (IF fault THEN 1 ELSE 0),
            !.afterFirst = IF trigger.calls = 0 THEN left ELSE @,
            !.threw = resp # "ok" /\ DeleteScheduleThrows(resp)]
  /\ UNCHANGED << handlerVars, counter, lookup, callers, pure >>

UnitInit ==
  /\ queriesTable = {}
  /\ counter = 0
  /\ Quiescent
  /\ lookup \in LookupInputs
  /\ trigger \in TriggerInputs
  /\ callers = NoCallers
  /\ PureIdle

UnitNext ==
  \/ ApplyGetQueryDetails
  \/ ApplyDeleteSchedule

UnitSpec == UnitInit /\ [][UnitNext]_vars

\* ------------------------------------------------ concurrent getNextDataId
\* the greatest identifier returned so far
MaxReturned ==
  LET rets == {callers[p].ret : p \in {q \in Callers : callers[q].pc = "done"}} \cup {0}
  IN CHOOSE m \in rets : \A r \in rets : r <= m

StartNextId(p) ==
  /\ callers[p].pc = "idle"
  /\ callers' = [callers EXCEPT ![p].pc = "update", ![p].floor = MaxReturned]
  /\ UNCHANGED << handlerVars, counter, lookup, trigger, pure >>

\* SET CurrentValue = if_not_exists(CurrentValue, :start) + :inc
IncrementCounter(value) == value + 1

\* the UpdateCommand, sent first, after the read and after a lost create race
SendUpdate(p) ==
  /\ callers[p].pc \in {"update", "retry", "finalRetry"}
  /\ \E resp \in {"attributes", "noAttributes", "error"}, applied \in BOOLEAN :
       /\ resp = "attributes" => applied
       /\ counter' = IF applied THEN IncrementCounter(counter) ELSE counter
       /\ callers' =
            CASE resp = "attributes" ->
                   [callers EXCEPT ![p].pc = "done", ![p].ret = counter']
              [] resp = "error" ->
                   [callers EXCEPT ![p].pc = "failed", ![p].err = "service"]
              [] OTHER ->
                   IF callers[p].pc = "update"
                     THEN [callers EXCEPT ![p].pc = "read"]
                     ELSE IF callers[p].pc = "retry"
                       THEN [callers EXCEPT ![p].pc = "create"]
                       ELSE [callers EXCEPT ![p].pc = "failed", ![p].err = "noAttributes"]
  /\ UNCHANGED << handlerVars, lookup, trigger, pure >>

\* the GetCommand of the recovery path
ReadCounter(p) ==
  /\ callers[p].pc = "read"
  /\ \E ok \in BOOLEAN :
       callers' = [callers EXCEPT ![p].pc = IF ok /\ counter > 0 THEN "retry" ELSE "create"]
  /\ UNCHANGED << handlerVars, counter, lookup, trigger, pure >>

\* variant: the PutCommand carries no condition
CreateAllowedUnconditional(exists) == TRUE

\* ConditionExpression: attribute_not_exists(CounterName)
CreateAllowed(exists) == ~exists

\* the conditional PutCommand that initializes the counter to 1
CreateCounter(p) ==
  /\ callers[p].pc = "create"
  /\ \E fault \in BOOLEAN :
       IF fault
         THEN /\ callers' = [callers EXCEPT ![p].pc = "failed", ![p].err = "service"]
              /\ UNCHANGED counter
         ELSE IF CreateAllowed(counter > 0)
           THEN /\ counter' = 1
                /\ callers' = [callers EXCEPT ![p].pc = "done", ![p].ret = 1]
           ELSE /\ callers' = [callers EXCEPT ![p].pc = "finalRetry", ![p].raced = TRUE]
                /\ UNCHANGED counter
  /\ UNCHANGED << handlerVars, lookup, trigger, pure >>

\* the PutCommand of storeAnalysisResults / storeSubtopicAnalysisResults, sent by
\* the invocation that holds the identifier; caller p works for queryId p, the
\* first on its main topic, the others on a subtopic
StoreRecord(p) ==
  /\ callers[p].pc = "done"
  /\ callers[p].put = "none"
  /\ \E fault \in BOOLEAN :
       LET isSubtopic == p > 1
           item == IF isSubtopic
                     THEN SubtopicItem(callers[p].ret, p, <<"s">>, MainTopicName, 1)
                     ELSE MainItem(callers[p].ret, p, MainTopicName, 1)
       IN /\ dataTable' = IF fault THEN dataTable ELSE PutItem(dataTable, item)
          /\ callers' = [callers EXCEPT ![p].put = IF fault THEN "failed" ELSE "ok"]
  /\ UNCHANGED << queriesTable, subtopicTable, schedule, subscriptions, published, pc,
                  event, locals, response, calls, outcome, invocations, completed,
                  unhappy, staleScans, counter, lookup, trigger, pure >>

CounterInit ==
  /\ queriesTable = {}
  /\ counter \in {0, 1}
  /\ Quiescent
  /\ lookup = NoLookup
  /\ trigger = NoTrigger
  /\ callers = NoCallers
  /\ PureIdle

CounterNext ==
  \E p \in Callers :
    \/ StartNextId(p)
    \/ SendUpdate(p)
    \/ ReadCounter(p)
    \/ CreateCounter(p)
    \/ StoreRecord(p)

CounterSpec == CounterInit /\ [][CounterNext]_vars

\* ------------------------- the compiled handler next to the TypeScript one
\* what one invocation meets: the search and the scoring of the main topic,
\* the store, the login, the publish and the delete
Environments ==
  [search : SearchOutcomes, store : StoreOutcomes, login : BOOLEAN,
   pub : {"ok", "fail"}, del : {"ok", "error"}]

\* part_007: await triggerEmailNotification(...); await deleteSchedule(...)
TsNotifyThenDelete(w, env) ==
  IF DeleteReached(TRUE, env.pub)
    THEN [w EXCEPT !.published = @ + (IF env.pub = "ok" THEN 1 ELSE 0),
                   !.deletes = @ + 1,
                   !.schedule = ScheduleAfterDelete(@, env.del),
                   !.outcome = "returned"]
    ELSE [w EXCEPT !.outcome = "publish failed"]

\* the TypeScript handler on a topic without registered subtopics: its Result
\* writes (PostsAnalyzed of each), notifications and trigger-delete calls
TsHandler(w, numIntervals, env) ==
  LET runCount == Len(w.records)
      res == AnalyzeSentimentForTerm(env.search)
      stored == HasSummary(res) /\ env.store = "ok"
      after == IF stored
                 THEN [w EXCEPT !.records = Append(@, res.summary.totalPostsAnalyzed)]
                 ELSE w
  IN IF EarlyExitReached(runCount, numIntervals)
       THEN TsNotifyThenDelete(w, env)
       ELSE IF AfterLogin(env.login) # "main"
         THEN [w EXCEPT !.outcome = "login failed"]
         ELSE IF FinalReached(EffectiveRunCount(runCount, stored), numIntervals)
           THEN TsNotifyThenDelete(after, env)
           ELSE [after EXCEPT !.outcome = "returned"]

\* blueskyLambda.js: await deleteSchedule(queryId), every error swallowed
JsDeleteSchedule(w, env) ==
  [w EXCEPT !.deletes = @ + 1,
            !.schedule = ScheduleAfterDelete(@, env.del),
            !.outcome = "returned"]

\* blueskyLambda.js: the run count is the number of records of the QueryID; a
\* failed login, search or store throws; the summary is stored whatever
\* analyzedCount is; no notification is published
JsHandler(w, numIntervals, env) ==
  LET runCount == Len(w.records)
      after == [w EXCEPT !.records = Append(@, AnalyzedCount(env.search.posts))]
  IN IF runCount >= numIntervals
       THEN JsDeleteSchedule(w, env)
       ELSE IF ~env.login
         THEN [w EXCEPT !.outcome = "login failed"]
         ELSE IF env.search.error
           THEN [w EXCEPT !.outcome = "search failed"]
           ELSE IF env.store # "ok"
             THEN [w EXCEPT !.outcome = "store failed"]
             ELSE IF runCount + 1 >= numIntervals
               THEN JsDeleteSchedule(after, env)
               ELSE [after EXCEPT !.outcome = "returned"]

\* one invocation delivered to each build, both meeting the same environment
InvokeBoth ==
  /\ deployed.numIntervals > 0
  /\ deployed.runs < MaxDeliveries
  /\ \E env \in Environments :
       deployed' = [deployed EXCEPT
         !.ts = TsHandler(deployed.ts, deployed.numIntervals, env),
         !.js = JsHandler(deployed.js, deployed.numIntervals, env),
         !.runs = @ + 1]
  /\ UNCHANGED << handlerVars, counter, lookup, trigger, callers, truncation, batch,
                  selection >>

DeployedInit ==
  /\ queriesTable = {}
  /\ counter = 0
  /\ Quiescent
  /\ lookup = NoLookup
  /\ trigger = NoTrigger
  /\ callers = NoCallers
  /\ truncation = NoTruncation
  /\ batch = NoBatch
  /\ selection = NoSelection
  /\ deployed \in {[NoDeployed EXCEPT !.numIntervals = n] : n \in 1..MaxIntervals}

DeployedNext == InvokeBoth

DeployedSpec == DeployedInit /\ [][DeployedNext]_vars

\* ------------------------------------------- functions on their own inputs
ApplyTruncate ==
  /\ ~truncation.done
  /\ truncation.text # NoTruncation.text
  /\ truncation' = [truncation EXCEPT !.sent = TextToAnalyze(truncation.text), !.done = TRUE]
  /\ UNCHANGED << handlerVars, counter, lookup, trigger, callers, batch, selection, deployed >>

\* analyzeSentimentForTerm on the posts of one search, then the store when a
\* summary came back
ApplyAnalyze ==
  /\ ~batch.done
  /\ batch.limit > 0
  /\ batch' = [batch EXCEPT
       !.done = TRUE,
       !.stored = SentimentSummary(batch.posts).totalPostsAnalyzed # 0,
       !.item = ResultItem(SentimentSummary(batch.posts))]
  /\ UNCHANGED << handlerVars, counter, lookup, trigger, callers, truncation, selection,
                  deployed >>

\* the aggregation, the sort and the selection of the first run
ApplySelect ==
  /\ ~selection.done
  /\ selection.mainTopic # NoMainTopic
  /\ \E finalSubtopics \in PossibleSubtopics(selection.phrases, selection.mainTopic) :
       selection' = [selection EXCEPT !.done = TRUE, !.chosen = finalSubtopics]
  /\ UNCHANGED << handlerVars, counter, lookup, trigger, callers, truncation, batch, deployed >>

PureInit ==
  /\ queriesTable = {}
  /\ counter = 0
  /\ Quiescent
  /\ lookup = NoLookup
  /\ trigger = NoTrigger
  /\ callers = NoCallers
  /\ deployed = NoDeployed
  /\ \/ truncation \in {[NoTruncation EXCEPT !.text = t] : t \in PostTexts} /\ batch = NoBatch
        /\ selection = NoSelection
     \/ /\ truncation = NoTruncation
        /\ batch \in {[NoBatch EXCEPT !.limit = MaxPosts, !.posts = p] : p \in BatchInputs}
        /\ selection = NoSelection
     \/ /\ truncation = NoTruncation
        /\ batch = NoBatch
        /\ selection \in {[NoSelection EXCEPT !.phrases = ps, !.mainTopic = MainTopicName] :
                            ps \in SelectionInputs}

PureNext ==
  \/ ApplyTruncate
  \/ ApplyAnalyze
  \/ ApplySelect

PureSpec == PureInit /\ [][PureNext]_vars

\* ------------------------------------------------------- derived notions
TopicExists == queriesTable # {}

NumIntervals == IF TopicExists THEN (CHOOSE r \in queriesTable : TRUE).NumIntervals ELSE 0

TopicStatus == IF TopicExists THEN (CHOOSE r \in queriesTable : TRUE).Status ELSE "none"

\* the stored Result records of the topic with IsSubtopic = false
MainCount == Cardinality({r \in dataTable : r.QueryID = QueryId /\ r.IsSubtopic = FALSE})

\* the last invocation has ended, by a return or by a thrown error
Ended == pc = "idle" /\ outcome \in {"returned", "threw"}

Returned == pc = "idle" /\ outcome = "returned"

\* the current invocation has computed its run count
RunCountKnown == calls["scan"] > 0 /\ calls["scanFailed"] = 0

\* run count at entry plus 1 if the main-topic record was written
Effective == currentRunCount + (IF mainStored THEN 1 ELSE 0)

AnalysisCalls ==
  { "login", "searchPosts", "detectSentiment", "putResult", "subscribe",
    "detectKeyPhrases", "addSubtopic", "getSubtopics", "putSubResult" }

TypeOK ==
  /\ pc \in {"idle", "extract", "fetch", "scan", "earlyExit", "login", "main",
             "firstRun", "subtopics", "subLoop", "final"}
  /\ outcome \in {"none", "running", "returned", "threw", "badRequest"}
  /\ counter \in Nat
  /\ schedule \in BOOLEAN
  /\ invocations \in 0..MaxInvocations

\* ------------------------------------------------------------- properties

\* C1: the number of stored main-topic Result records (IsSubtopic = false)
\* never decreases and never exceeds the topic's NumIntervals, over any
\* sequence of non-overlapping invocations, redeliveries included.
C1_RunCountMonotone ==
  /\ [](MainCount <= NumIntervals)
  /\ [][MainCount' >= MainCount]_vars

\* an invocation delivered after the last interval was stored found the full
\* count and wrote nothing
C1_Witness ==
  /\ Ended
  /\ RunCountKnown
  /\ invocations > NumIntervals
  /\ currentRunCount = NumIntervals
  /\ MainCount = NumIntervals
  /\ ~mainStored

C3_DeleteExactlyOnce ==
  (Ended /\ RunCountKnown /\ Effective >= queryDetails.NumIntervals)
    => calls["deleteSchedule"] = 1

C5_RedeliveredFinal ==
  (event.pendingDelete /\ Ended /\ RunCountKnown) =>
    /\ currentRunCount >= queryDetails.NumIntervals
    /\ \A c \in {"login", "searchPosts", "detectSentiment", "putResult", "putSubResult"} :
         calls[c] = 0
    /\ calls["publish"] = 1
    /\ calls["publishFailed"] = 0
    /\ calls["deleteSchedule"] = 1

\* C6: when the fetched Topic record has status COMPLETED or CANCELLED the
\* invocation issues one trigger-delete and returns: no run-count scan, no
\* authentication, search, scoring, Result or Subtopic write, no notification.
C6_TerminalStatusNoOp ==
  queryDetails.Status \in {"COMPLETED", "CANCELLED"} =>
    /\ Returned
    /\ calls["deleteSchedule"] = 1
    /\ \A c \in (AnalysisCalls \cup {"scan", "publish"}) : calls[c] = 0
    /\ dataTable = {}
    /\ subtopicTable = <<>>
    /\ published = 0

\* an invocation for a CANCELLED topic has returned
C6_Witness ==
  /\ queryDetails.Status = "CANCELLED"
  /\ Returned
  /\ calls["deleteSchedule"] = 1

C8_Original ==
  (Returned /\ calls["login"] > 0) =>
    ((calls["detectKeyPhrases"] > 0 /\ calls["addSubtopic"] > 0) <=> currentRunCount = 0)

\* C8 amended: key-phrase extraction and subtopic registration occur only in
\* an invocation whose run count at entry was 0; in such an invocation the
\* extraction runs exactly when the main-topic record was stored and the
\* owner subscription succeeded, and registration only follows extraction.
C8_FirstRunOnly ==
  /\ (calls["detectKeyPhrases"] > 0 \/ calls["addSubtopic"] > 0) =>
       (RunCountKnown /\ currentRunCount = 0)
  /\ calls["addSubtopic"] > 0 => calls["detectKeyPhrases"] > 0
  /\ (Ended /\ calls["login"] > 0) =>
       (calls["detectKeyPhrases"] > 0 <=>
          (currentRunCount = 0 /\ mainStored /\ calls["subscribe"] = 1
             /\ calls["subscribeFailed"] = 0))

\* a first run extracted key phrases and registered subtopics
C8_Witness ==
  /\ Ended
  /\ currentRunCount = 0
  /\ calls["detectKeyPhrases"] > 0
  /\ calls["addSubtopic"] > 0

C10_FinalizeIffReached ==
  (Ended /\ calls["login"] > 0) =>
    IF Effective < queryDetails.NumIntervals
      THEN calls["publish"] = 0 /\ calls["deleteSchedule"] = 0
      ELSE calls["publish"] = 1 /\ calls["deleteSchedule"] = 1

\* C11: while no main-topic Result record has been stored for a topic whose
\* analysis is attempted (status neither COMPLETED nor CANCELLED), whatever
\* the number of invocations, the run count read at entry stays 0, no
\* completion notification is published, no trigger-delete call is issued
\* and the trigger still exists.
C11_NoStoreNoFinalize ==
  (MainCount = 0 /\ TopicStatus \notin {"COMPLETED", "CANCELLED"}) =>
    /\ currentRunCount = 0
    /\ published = 0
    /\ calls["publish"] = 0
    /\ calls["deleteSchedule"] = 0
    /\ schedule

\* a second invocation searched, stored nothing and left the trigger in place
C11_Witness ==
  /\ Returned
  /\ invocations >= 2
  /\ TopicStatus = "ACTIVE"
  /\ calls["searchPosts"] > 0
  /\ MainCount = 0
  /\ schedule

\* C12: when the main-topic analysis of an invocation scored zero posts (no
\* posts found, no text, or every scoring call failed), that invocation
\* writes no main-topic Result record, the run count is the one read at
\* entry, and the invocation returns without error.
C12_ZeroScoredNoRecord ==
  (calls["searchPosts"] > 0 /\ ~mainScored) =>
    /\ ~mainStored
    /\ calls["putResult"] = 0
    /\ MainCount = currentRunCount
    /\ outcome \in {"running", "returned"}
    /\ pc = "idle" => outcome = "returned"

\* every scoring call of the main topic failed and the invocation returned
C12_Witness ==
  /\ Returned
  /\ calls["searchPosts"] > 0
  /\ calls["detectSentiment"] > 0
  /\ ~mainScored
  /\ MainCount = 0

\* C13: an invocation that starts with run count 0 and passes the guards
\* subscribes the owner's address, whether or not it stored a main-topic
\* Result record.
C13_SubscribeOnFirstRun ==
  (Ended /\ calls["searchPosts"] > 0 /\ currentRunCount = 0) =>
    calls["subscribe"] = 1

\* C14: in an invocation that starts with run count 0 and whose main-topic
\* search returned posts with text, key-phrase extraction runs even when no
\* post was scored.
C14_KeyPhrasesWithoutSummary ==
  (Ended /\ currentRunCount = 0 /\ calls["detectSentiment"] > 0 /\ ~mainScored) =>
    calls["detectKeyPhrases"] > 0

\* C15: in a subsequent-interval invocation, whatever one iteration of the
\* subtopic loop meets (a search, scoring or storage error included), the
\* loop goes on to the next subtopic, the invocation keeps running, every
\* subtopic whose analysis yields a summary and whose store succeeds gets
\* its Result record, every registered subtopic is searched, and the final
\* check still runs (the notification is attempted when the effective run
\* count is >= NumIntervals).
C15_SubtopicIsolation ==
  /\ [][pc = "subLoop" =>
          /\ pc' \in {"subLoop", "final"}
          /\ outcome' = "running"
          /\ subIdx < Len(subtopics) => (pc' = "subLoop" /\ subIdx' = subIdx + 1)
          /\ (subOutcome'.summary /\ subOutcome'.error = "none") =>
                \E r \in dataTable' \ dataTable :
                   r.IsSubtopic /\ r.QueryID = QueryId /\ r.Topic = subtopics[subIdx]]_vars
  /\ []((pc \in {"final", "idle"} /\ calls["getSubtopics"] = 1
            /\ calls["getSubtopicsFailed"] = 0) =>
          calls["searchPosts"] = 1 + Len(subtopicTable))
  /\ []((Ended /\ calls["getSubtopics"] = 1 /\ Effective >= queryDetails.NumIntervals) =>
          calls["publish"] = 1)

\* the search for the last of several subtopics failed, a Result record was
\* written for another one and the invocation returned
C15_Witness ==
  /\ Returned
  /\ Len(subtopicTable) >= 2
  /\ calls["searchPosts"] = 1 + Len(subtopicTable)
  /\ subOutcome.error = "search"
  /\ \E r \in dataTable : r.IsSubtopic /\ r.QueryID = QueryId

\* C16: when no Topic record can be fetched, or the login fails, the
\* invocation ends with the error thrown and has written no Result record,
\* registered no subtopic, published no notification and issued no
\* trigger-delete.
C16_FatalErrors ==
  (Ended /\ ((calls["getQueryDetails"] > 0 /\ queryDetails = NoDetails)
               \/ calls["loginFailed"] > 0)) =>
    /\ outcome = "threw"
    /\ \A c \in {"searchPosts", "putResult", "putSubResult", "subscribe", "addSubtopic",
                  "publish", "deleteSchedule"} : calls[c] = 0
    /\ ~mainStored

\* the login of an invocation for an ACTIVE topic failed
C16_Witness ==
  /\ Ended
  /\ calls["loginFailed"] = 1
  /\ TopicStatus = "ACTIVE"
  /\ outcome = "threw"

\* C17: among concurrent getNextDataId calls on one counter, started with the
\* counter record absent or present and taking the recovery path (read,
\* conditional create, retried increment) or not, the calls that return
\* yield pairwise distinct integers, a call started after another returned
\* yields a greater one, and a conditional create that finds the record
\* already there goes on to retry the increment: it fails only on a service
\* error.
C17_DistinctIncreasing ==
  /\ [](\A p, q \in Callers :
          (p # q /\ callers[p].pc = "done" /\ callers[q].pc = "done") =>
            callers[p].ret # callers[q].ret)
  /\ [](\A p \in Callers : callers[p].pc = "done" => callers[p].ret > callers[p].floor)
  /\ [][\A p \in Callers :
          (callers[p].pc = "create" /\ counter > 0 /\ callers'[p] # callers[p]) =>
            \/ callers'[p].pc = "finalRetry" /\ callers'[p].raced
            \/ callers'[p].pc = "failed" /\ callers'[p].err = "service"]_vars

\* a call started after another had returned lost the create race, retried
\* the increment and returned
C17_Witness ==
  \E p, q \in Callers :
    /\ p # q
    /\ callers[p].pc = "done"
    /\ callers[q].pc = "done"
    /\ callers[p].raced
    /\ callers[p].floor > 0

\* C18: deleteSchedule(queryId) addresses the schedule named after queryId
\* alone and touches no other; no error reaches its caller, the schedule
\* being absent included; after a call the service accepted the schedule is
\* gone, and a second call leaves the state the first one left.
C18_DeleteIdempotent ==
  LET name == ScheduleName(trigger.qid)
  IN /\ ~trigger.threw
     /\ trigger.schedules \ {name} = trigger.before \ {name}
     /\ trigger.schedules \subseteq trigger.before
     /\ (trigger.calls >= 1 /\ trigger.faults = 0) => name \notin trigger.schedules
     /\ (trigger.calls >= 2 /\ trigger.faults = 0) => trigger.schedules = trigger.afterFirst

\* called twice for a schedule that was absent from the start, another
\* topic's schedule being there
C18_Witness ==
  /\ trigger.calls = 2
  /\ trigger.faults = 0
  /\ ScheduleName(trigger.qid) \notin trigger.before
  /\ trigger.schedules # {}
  /\ ~trigger.threw

\* C19: getQueryDetails returns only records of the table with the asked
\* queryId; when the fallback query is answered it returns one whenever a
\* record with that queryId exists, the hint being absent, matching, missing
\* or its lookup failing; and it fails when there is no such record.
C19_LookupFindsRecord ==
  lookup.done =>
    LET exists == \E r \in lookup.table : r.QueryID = lookup.qid
    IN /\ \A r \in lookup.found : r \in lookup.table /\ r.QueryID = lookup.qid
       /\ lookup.queryOk => (lookup.found # {} <=> exists)
       /\ ~exists => lookup.found = {}

\* the hinted lookup failed and the record was found by the fallback query
C19_Witness ==
  /\ lookup.done
  /\ lookup.hint # NoHint
  /\ ~lookup.getOk
  /\ lookup.found # {}

\* C20: a manual invocation with a valid queryId that returns without error
\* returns the summary with mainTopicStored, runCountAfter = run count at
\* entry + 1 if the main record was stored, and intervalsNeeded =
\* NumIntervals; a scheduled invocation returns nothing.
C20_ManualSummary ==
  Returned =>
    response = FinalResponse(event.kind, mainStored, Effective, queryDetails.NumIntervals)

\* C21: for every post text whose UTF-8 byte length exceeds
\* MAX_COMPREHEND_BYTES (4990), the cut falling inside a multi-byte code point
\* included, the text passed to sentiment scoring and to key-phrase
\* extraction has a UTF-8 byte length of at most 4990 and is valid UTF-8.
C21_TruncatedWithinLimit ==
  truncation.done /\ ByteLength(truncation.text) > MAX_COMPREHEND_BYTES =>
    /\ ByteLength(truncation.sent) <= MAX_COMPREHEND_BYTES
    /\ WellFormed(truncation.sent.tail)

\* C22 as stated: over any sequence of invocations for the topic the
\* completion notification is published at most once.
C22_Original == published <= 1

\* C22: the completion notification is published at most once per invocation
\* and only by an invocation whose effective run count has reached
\* NumIntervals; every such invocation that returns publishes it, an
\* invocation delivered after completion included.
C22_OncePerCompletingInvocation ==
  /\ [](calls["publish"] <= 1)
  /\ [][published' = published +
          (IF /\ pc \in {"earlyExit", "final"}
              /\ outcome' = "returned"
              /\ Effective >= queryDetails.NumIntervals
             THEN 1 ELSE 0)]_vars

\* two invocations have each published the completion notification
C22_Witness ==
  /\ Returned
  /\ invocations = 2
  /\ published = 2
  /\ calls["publish"] = 1

\* C23: no invocation modifies or deletes a Topic record, and none updates
\* or deletes an existing Result record: the Result records only grow, every
\* record present before a step is present and unchanged after it, also in
\* an invocation that fails later.
C23_AppendOnly ==
  [][/\ queriesTable' = queriesTable
     /\ dataTable \subseteq dataTable']_vars

\* an invocation that stored its main-topic record on top of earlier records
\* failed afterwards (the publish threw) and the records are all there
C23_Witness ==
  /\ pc = "idle"
  /\ outcome = "threw"
  /\ mainStored
  /\ calls["publishFailed"] = 1
  /\ Cardinality(dataTable) >= 2

C26_RunCountExact ==
  [][pc = "scan" /\ pc' \in {"earlyExit", "login"} => currentRunCount' = MainCount]_vars

\* C27: an invocation that passed the guards and logged in enters the
\* subtopic branch (lists the registry) if and only if its run count at entry
\* is > 0, whether or not it stored its main-topic record; each iteration of
\* the loop writes at most one Result record, tagged IsSubtopic = true with
\* the label of the iteration and the main topic string, the labels of one
\* invocation are distinct, and an empty registry ends the branch without an
\* error.
C27_SubtopicBranch ==
  /\ [](Ended /\ RunCountKnown /\ calls["login"] = 1 /\ calls["loginFailed"] = 0 =>
          (calls["getSubtopics"] = 1 <=> currentRunCount > 0))
  /\ [](calls["getSubtopics"] > 0 => currentRunCount > 0)
  /\ [](\A i, j \in DOMAIN subtopics : subtopics[i] = subtopics[j] => i = j)
  /\ [](calls["putSubResult"] <= Len(subtopicTable))
  /\ [][pc = "subLoop" =>
          /\ Cardinality(dataTable' \ dataTable) <= 1
          /\ \A r \in dataTable' \ dataTable :
               /\ r.IsSubtopic
               /\ r.Topic = subtopics[subIdx]
               /\ r.MainTopic = queryDetails.Topic
               /\ r.QueryID = QueryId]_vars
  /\ [][pc = "subtopics" /\ calls'["getSubtopics"] = 1 /\ subtopics' = <<>> =>
          pc' = "final" /\ outcome' = outcome /\ dataTable' = dataTable]_vars

\* an invocation at run count > 0 stored no main-topic record and still
\* wrote a subtopic record
C27_Witness ==
  /\ Returned
  /\ currentRunCount > 0
  /\ ~mainStored
  /\ calls["getSubtopics"] = 1
  /\ \E r \in dataTable : r.IsSubtopic /\ r.MainTopic = MainTopicName /\ r.DataID = counter

\* C28: for every Result record written, PostsAnalyzed is the number of
\* posts of the search that had text and were scored without error, it is at
\* least 1 and at most PostsToAnalyze, the four sentiment counts sum to it
\* and it is the denominator of the four averages; posts without text or
\* with a failed scoring call are left out and do not abort the batch: a
\* record is written as soon as one post was scored.
C28_CountsOfScoredPosts ==
  batch.done =>
    LET scored == {i \in DOMAIN batch.posts : batch.posts[i] \in Sentiments}
        item == batch.item
    IN /\ batch.stored <=> scored # {}
       /\ batch.stored =>
            /\ item.PostsAnalyzed = Cardinality(scored)
            /\ item.PostsAnalyzed >= 1
            /\ item.PostsAnalyzed <= batch.limit
            /\ item.PositivePosts + item.NegativePosts + item.NeutralPosts
                 + item.MixedPosts = item.PostsAnalyzed
            /\ \A avg \in {item.AvgPositiveScore, item.AvgNegativeScore,
                           item.AvgNeutralScore, item.AvgMixedScore} :
                 avg.over = Cardinality(scored)

\* a batch with a post whose scoring failed and a scored post was stored
\* with one post analyzed
C28_Witness ==
  /\ batch.done
  /\ batch.stored
  /\ \E i \in DOMAIN batch.posts : batch.posts[i] = "scoreErr"
  /\ batch.item.PostsAnalyzed = 1
  /\ batch.item.AvgNegativeScore = Average(1, 1)

\* C29: the subtopics selected on the first run are the SUBTOPIC_COUNT most
\* frequent case-normalized key phrases among those longer than 2 characters
\* and different from the main topic: at most 3 entries, no duplicate, none
\* equal to the main topic, none of length <= 2, and no eligible phrase left
\* out occurs strictly more often than a selected one.
C29_MostFrequentSelected ==
  selection.done =>
    LET normalized == [i \in DOMAIN selection.phrases |->
                         NormalizePhrase(selection.phrases[i])]
        frequency(q) == Cardinality({i \in DOMAIN normalized : normalized[i] = q})
        eligible == {q \in Range(normalized) :
                       Len(q) > 2 /\ q # NormalizePhrase(selection.mainTopic)}
        chosen == selection.chosen
    IN /\ Len(chosen) <= SUBTOPIC_COUNT
       /\ \A i, j \in DOMAIN chosen : chosen[i] = chosen[j] => i = j
       /\ Range(chosen) \subseteq eligible
       /\ \A q \in eligible \ Range(chosen), c \in Range(chosen) :
            frequency(q) <= frequency(c)

\* C30: in every invocation at most one authentication is performed, only
\* after the status guard and the run-count guard have passed, and no feed
\* search, for the main topic or for a subtopic, is issued before that
\* authentication has succeeded.
C30_LoginOnceBeforeSearch ==
  /\ calls["login"] <= 1
  /\ calls["login"] > 0 =>
       /\ RunCountKnown
       /\ ~IsTerminalStatus(queryDetails.Status)
       /\ currentRunCount < queryDetails.NumIntervals
  /\ calls["searchPosts"] > 0 => calls["login"] = 1 /\ calls["loginFailed"] = 0

\* one login served the search of the main topic and of a subtopic
C30_Witness ==
  /\ Returned
  /\ calls["login"] = 1
  /\ calls["searchPosts"] >= 2
  /\ calls["getSubtopics"] = 1

\* C31: across any interleaving of invocations, concurrent ones for different
\* queryIds included, every Result record is written under a dataId that no
\* record written before carries, so that no write replaces a record, and the
\* identifiers grow in the order in which they are allocated.
C31_WritesNeverOverwrite ==
  /\ [][/\ dataTable \subseteq dataTable'
        /\ \A r \in dataTable' \ dataTable : \A o \in dataTable : o.DataID # r.DataID]_vars
  /\ [][\A p \in Callers :
          (callers[p].put = "none" /\ callers'[p].put = "ok") =>
            Cardinality(dataTable') = Cardinality(dataTable) + 1]_vars
  /\ [][\A p \in Callers :
          (callers[p].pc # "done" /\ callers'[p].pc = "done") =>
            \A q \in Callers : callers[q].pc = "done" => callers'[p].ret > callers[q].ret]_vars

C31_Witness ==
  \E p, q \in Callers :
    /\ p # q
    /\ callers[p].put = "ok"
    /\ callers[q].put = "ok"
    /\ callers[q].raced
    /\ \E r, o \in dataTable :
         r.QueryID = p /\ o.QueryID = q /\ r.DataID > o.DataID /\ r.IsSubtopic /\ ~o.IsSubtopic

\* C32: in both completion paths (early exit and final check) the trigger-delete
\* call is issued only after the completion notification of the same invocation
\* has been issued and has not failed; when the publish fails, the invocation
\* ends with the error, issues no trigger-delete and leaves the trigger as it
\* was, so that the trigger only disappears in an invocation that got past the
\* notification.
C32_NotifyBeforeDelete ==
  /\ [][(pc \in {"earlyExit", "final"} /\ calls'["deleteSchedule"] > calls["deleteSchedule"]) =>
          /\ calls'["publishFailed"] = 0
          /\ queryDetails.Email # "" =>
               (calls'["publish"] = 1 /\ published' = published + 1)]_vars
  /\ [](calls["publishFailed"] > 0 =>
          /\ outcome = "threw"
          /\ calls["deleteSchedule"] = 0)
  /\ [][calls'["publishFailed"] > calls["publishFailed"] =>
          /\ pc \in {"earlyExit", "final"}
          /\ schedule' = schedule
          /\ published' = published]_vars
  /\ [][(pc \in {"earlyExit", "final"} /\ schedule /\ ~schedule') =>
          /\ calls'["publishFailed"] = 0
          /\ calls'["deleteSchedule"] = 1]_vars

\* the publish of the final check failed and left the trigger; the next
\* invocation took the early exit, published and deleted the trigger
C32_Witness ==
  /\ Returned
  /\ invocations = 2
  /\ unhappy
  /\ published = 1
  /\ calls["deleteError"] = 0
  /\ calls["deleteSchedule"] = 1
  /\ currentRunCount = NumIntervals
  /\ ~schedule

\* C33: when the invocation that stored the first main-topic record fails in
\* its first-run block after the store (the owner subscription throws), the
\* record counts toward the run count, the invocation goes on to the final
\* check with effective run count 1 and registers nothing; from then on no
\* invocation extracts key phrases or registers a subtopic, and the registry
\* stays empty.
C33_FirstRunFailureIsFinal ==
  /\ [][calls'["subscribeFailed"] > calls["subscribeFailed"] =>
          /\ mainStored /\ currentRunCount = 0 /\ MainCount = 1
          /\ subtopicTable' = <<>>
          /\ calls'["detectKeyPhrases"] = 0 /\ calls'["addSubtopic"] = 0
          /\ pc' = "subtopics" /\ outcome' = "running"]_vars
  /\ [](Ended /\ calls["subscribeFailed"] > 0 =>
          /\ Effective = 1
          /\ calls["getSubtopics"] = 0
          /\ calls["detectKeyPhrases"] = 0 /\ calls["addSubtopic"] = 0
          /\ queryDetails.NumIntervals = 1 => calls["publish"] = 1
          /\ queryDetails.NumIntervals > 1 => (outcome = "returned" /\ calls["publish"] = 0))
  /\ [][(MainCount >= 1 /\ subscriptions = {} /\ subtopicTable = <<>> /\ pc # "firstRun") =>
          /\ subtopicTable' = <<>>
          /\ pc' # "firstRun"
          /\ calls'["detectKeyPhrases"] <= calls["detectKeyPhrases"]
          /\ calls'["addSubtopic"] <= calls["addSubtopic"]]_vars

\* C34: when the main-topic summary cannot be persisted (the counter
\* allocation or the put of the Result record fails), the invocation goes on
\* and returns without error, mainTopicStored is false, the effective run
\* count is the run count read at entry, and the invocation issues neither the
\* completion notification nor the trigger-delete.
C34_StoreFailureNotFatal ==
  /\ [][(pc = "main" /\ mainScored' /\ ~mainStored') =>
          /\ pc' = "subtopics"
          /\ outcome' = "running"
          /\ dataTable' = dataTable
          /\ calls'["subscribe"] = 0]_vars
  /\ [](calls["searchPosts"] > 0 /\ mainScored /\ ~mainStored =>
          /\ outcome # "threw"
          /\ Effective = currentRunCount
          /\ Effective < queryDetails.NumIntervals
          /\ calls["publish"] = 0
          /\ calls["deleteSchedule"] = 0
          /\ Returned /\ event.kind = "manual" =>
               (~response.mainTopicStored /\ response.runCountAfter = currentRunCount))

\* the put of the second interval failed: the invocation analyzed the
\* subtopics and returned, the trigger is still there
C34_Witness ==
  /\ Returned
  /\ mainScored
  /\ ~mainStored
  /\ calls["putResult"] = 1
  /\ currentRunCount = 1
  /\ calls["getSubtopics"] = 1
  /\ schedule

\* C35: with invocations that do not overlap and an exact run-count scan, an
\* invocation that computed its run count and returned has an effective run
\* count (run count at entry, plus 1 if it stored its record) equal to the
\* number of main-topic Result records stored for the topic, and that is the
\* count the end of the handler returns to a manual caller.
C35_EffectiveEqualsStored ==
  (Returned /\ RunCountKnown) =>
    /\ Effective = MainCount
    /\ (event.kind = "manual" /\ calls["login"] > 0) =>
         /\ response.runCountAfter = MainCount
         /\ response.mainTopicStored = mainStored

\* a manual invocation stored the second record and reported 2
C35_Witness ==
  /\ Returned
  /\ event.kind = "manual"
  /\ mainStored
  /\ response.runCountAfter = 2
  /\ MainCount = 2

\* the Result records of the topic tagged IsSubtopic = true with the label
SubtopicRecords(label) ==
  {r \in dataTable : r.QueryID = QueryId /\ r.IsSubtopic /\ r.Topic = label}

\* C36 as stated: for every registered label, the Result records tagged
\* IsSubtopic = true with that label never exceed NumIntervals - 1.
C36_Original ==
  \A label \in Range(subtopicTable) :
    Cardinality(SubtopicRecords(label)) <= NumIntervals - 1

\* C36: every invocation whose run count at entry is > 0 writes at most one
\* Result record tagged IsSubtopic = true per registered label, whether or not
\* it stores its main-topic record, and no other invocation writes any; the
\* records of a label never exceed the number of invocations, and do exceed
\* NumIntervals - 1 when invocations store nothing for the main topic.
C36_OnePerLaterInvocation ==
  /\ [](\A label \in Range(subtopicTable) :
          Cardinality(SubtopicRecords(label)) <= invocations)
  /\ [][\A label \in Range(subtopicTable) :
          SubtopicRecords(label)' # SubtopicRecords(label) =>
            /\ pc = "subLoop"
            /\ currentRunCount > 0
            /\ subtopics[subIdx] = label
            /\ SubtopicRecords(label) \subseteq SubtopicRecords(label)'
            /\ Cardinality(SubtopicRecords(label)') = Cardinality(SubtopicRecords(label)) + 1]_vars

\* two invocations at run count 1 stored no main-topic record and one record
\* each for the label
C36_Witness ==
  /\ Returned
  /\ invocations = 2
  /\ MainCount = 1
  /\ \E label \in Range(subtopicTable) :
       Cardinality(SubtopicRecords(label)) = 2 /\ NumIntervals - 1 < 2

\* C37: a failure to list the subtopics (the listing call errors or returns an
\* unexpected payload) is taken as an empty list: the invocation writes no
\* subtopic Result record, does not fail, and performs the finalization: the
\* completion notification and the trigger-delete exactly when the effective
\* run count is >= NumIntervals.
C37_ListingFailureIsEmptyList ==
  /\ [][calls'["getSubtopicsFailed"] > calls["getSubtopicsFailed"] =>
          /\ subtopics' = <<>>
          /\ pc' = "final"
          /\ outcome' = "running"
          /\ dataTable' = dataTable]_vars
  /\ [](calls["getSubtopicsFailed"] > 0 => calls["putSubResult"] = 0)
  /\ [](Ended /\ calls["getSubtopicsFailed"] > 0 =>
          /\ outcome = "returned"
          /\ IF Effective >= queryDetails.NumIntervals
               THEN calls["publish"] = 1 /\ calls["deleteSchedule"] = 1
               ELSE calls["publish"] = 0 /\ calls["deleteSchedule"] = 0)

\* C38: on a topic without registered subtopics the compiled handler
\* (blueskyLambda.js) and the TypeScript handler, given the same sequence of
\* invocations and the same outcomes of search, scoring, store, publish and
\* delete, perform the same Result writes, the same notifications and the
\* same trigger-delete calls.
C38_SameEffects ==
  /\ deployed.js.records = deployed.ts.records
  /\ deployed.js.published = deployed.ts.published
  /\ deployed.js.deletes = deployed.ts.deletes

====
